---- MODULE Spec2Model ----
(***************************************************************************)
(* Frame loop of bevy-pong (src/src/main.rs): the six systems that main()  *)
(* registers, run once per frame in the order the schedule allows.         *)
(*                                                                         *)
(* Positions and velocities are the f32 world units of the source.  The    *)
(* clock is modelled with a resolution of 1/TicksPerSecond seconds; every  *)
(* velocity of the program (0, +-150, +-600) is a multiple of              *)
(* TicksPerSecond, so velocity * dt is an exact integer.                   *)
(***************************************************************************)
EXTENDS Integers, Sequences, FiniteSets, TLC

\* ---------------------------------------------------------------- bounds
\* Number of frames the model runs.
MaxFrames == 3

\* Resolution of the modelled clock: dt is counted in 1/50 s.
TicksPerSecond == 50

\* Elapsed times a frame can take, in ticks:
\* 0 s, 0.1 s, 0.4 s, 1.0 s, 3.0 s, 4.32 s (the ball travels 648) and 5.0 s.
ElapsedTicks == {0, 5, 20, 50, 150, 216, 250}

\* ------------------------------------------------------------- constants
PADDLE_SPEED == 600
PADDLE_HALF_HEIGHT == 32
SCREEN_HALF_HEIGHT == 360
SCREEN_HALF_WIDTH == 640
BALL_RADIUS == 8
BALL_DIAMETER == 8
PADDLE_WIDTH == 16
PADDLE_HEIGHT == 64
BALL_START_SPEED == 150
PADDLE_START_X == 500

Player == {"Left", "Right"}

\* Spawn order of the paddles, which is the order queries visit them in.
PaddleOrder == <<"Left", "Right">>

\* The systems added with .after("movement") and no order among themselves.
PostSystems == {"paddle_limiter", "ball_limiter", "ball_paddle_collider"}

VARIABLES
    inputs,     \* resource Inputs: the snapshot of the four keys
    ball,       \* the Ball entity: Transform.translation and Velocity
    paddles,    \* the two Paddle entities, by Player
    pc,         \* the system the schedule runs next
    pending,    \* post-movement systems that have not run yet in this frame
    frame,      \* frames started so far
    \* observations of the current frame (no system reads them)
    keys,       \* key state the Input Source reported to input_decoder
    dt,         \* Time::delta_seconds of this frame, in ticks
    writes,     \* writes of the snapshot so far
    start,      \* ball and paddles when the frame began
    before,     \* ball and paddles each post-movement system found
    after,      \* ball and paddles each post-movement system left
    prevHit,    \* what ball_paddle_collider hit in the previous frame
    positive    \* every frame so far took a positive time

vars == <<inputs, ball, paddles, pc, pending, frame,
          keys, dt, writes, start, before, after, prevHit, positive>>

\* ----------------------------------------------------------------- data
Vec2(x, y) == [x |-> x, y |-> y]
Vec3(x, y, z) == [x |-> x, y |-> y, z |-> z]
Vec3_ZERO == Vec3(0, 0, 0)
Vec2_ZERO == Vec2(0, 0)

PaddleInputs_new(up, down) == [up |-> up, down |-> down]

Inputs_default ==
    [left |-> PaddleInputs_new(FALSE, FALSE), right |-> PaddleInputs_new(FALSE, FALSE)]

\* Key state of the Input Source: pressed or not, for W, S, I, K.
KeyStates == [W : BOOLEAN, S : BOOLEAN, I : BOOLEAN, K : BOOLEAN]

Entity(translation, velocity) == [translation |-> translation, velocity |-> velocity]

World == [ball |-> ball, paddles |-> paddles]

\* ---------------------------------------------------------------- setup
setup_ball == Entity(Vec3_ZERO, Vec2(BALL_START_SPEED, BALL_START_SPEED))

spawn_paddle(x) == Entity(Vec3(x, 0, 0), Vec2_ZERO)

setup_paddles ==
    [p \in Player |->
        IF p = "Left" THEN spawn_paddle(-PADDLE_START_X) ELSE spawn_paddle(PADDLE_START_X)]

\* -------------------------------------------------------------- systems
\* Variant of input_decoder with the left keys exchanged.
input_decoder_swapped(k) ==
    [left |-> [up |-> k.S, down |-> k.W], right |-> [up |-> k.I, down |-> k.K]]

input_decoder(k) ==
    [left |-> [up |-> k.W, down |-> k.S], right |-> [up |-> k.I, down |-> k.K]]

SideInput(inp, p) == IF p = "Left" THEN inp.left ELSE inp.right

\* Variant of handle_inputs that does not reset the velocity first.
handle_inputs_one_no_reset(inp, p, e) ==
    LET input == IF p = "Left" THEN inp.left ELSE inp.right
        v0 == e.velocity.y
        v1 == IF input.up THEN v0 + PADDLE_SPEED ELSE v0
        v2 == IF input.down THEN v1 - PADDLE_SPEED ELSE v1
    IN  [e EXCEPT !.velocity.y = v2]

handle_inputs_one(inp, p, e) ==
    LET input == SideInput(inp, p)
        v0 == 0
        v1 == IF input.up THEN v0 + PADDLE_SPEED ELSE v0
        v2 == IF input.down THEN v1 - PADDLE_SPEED ELSE v1
    IN  [e EXCEPT !.velocity.y = v2]

handle_inputs(inp, ps) == [p \in Player |-> handle_inputs_one(inp, p, ps[p])]

\* velocity * dt, with dt in ticks.
Scaled(v, d) == (v * d) \div TicksPerSecond

movement_one(d, e) ==
    [e EXCEPT !.translation =
        Vec3(e.translation.x + Scaled(e.velocity.x, d),
             e.translation.y + Scaled(e.velocity.y, d),
             e.translation.z + Scaled(0, d))]

\* Variant of paddle_limiter without the lower bound.
paddle_limiter_one_upper_only(e) ==
    LET y1 == IF e.translation.y > SCREEN_HALF_HEIGHT - PADDLE_HALF_HEIGHT
              THEN SCREEN_HALF_HEIGHT - PADDLE_HALF_HEIGHT ELSE e.translation.y
    IN  [e EXCEPT !.translation.y = y1]

paddle_limiter_one(e) ==
    LET y1 == IF e.translation.y > SCREEN_HALF_HEIGHT - PADDLE_HALF_HEIGHT
              THEN SCREEN_HALF_HEIGHT - PADDLE_HALF_HEIGHT ELSE e.translation.y
        y2 == IF y1 < -SCREEN_HALF_HEIGHT + PADDLE_HALF_HEIGHT
              THEN -SCREEN_HALF_HEIGHT + PADDLE_HALF_HEIGHT ELSE y1
    IN  [e EXCEPT !.translation.y = y2]

paddle_limiter(ps) == [p \in Player |-> paddle_limiter_one(ps[p])]

\* Variants of ball_limiter.  All share the steps of the original:
\* vertical bounce (position y, velocity vy), the edge test, the reset.
BallLimiterWith(b, clamp, inclusive, reset_vx, reset_vy) ==
    LET top == b.translation.y > SCREEN_HALF_HEIGHT - BALL_RADIUS
        y1 == IF top /\ clamp THEN SCREEN_HALF_HEIGHT - BALL_RADIUS ELSE b.translation.y
        bottom == y1 < -SCREEN_HALF_HEIGHT + BALL_RADIUS
        y2 == IF bottom /\ clamp THEN -SCREEN_HALF_HEIGHT + BALL_RADIUS ELSE y1
        flip_vert == top \/ bottom
        vy == IF flip_vert THEN -b.velocity.y ELSE b.velocity.y
        ball_out ==
            IF inclusive
            THEN \/ b.translation.x <= -SCREEN_HALF_WIDTH - BALL_RADIUS
                 \/ b.translation.x >= SCREEN_HALF_WIDTH + BALL_RADIUS
            ELSE \/ b.translation.x < -SCREEN_HALF_WIDTH - BALL_RADIUS
                 \/ b.translation.x > SCREEN_HALF_WIDTH + BALL_RADIUS
    IN  IF ball_out
        THEN Entity(Vec3_ZERO,
                    Vec2(IF reset_vx THEN -b.velocity.x ELSE b.velocity.x,
                         IF reset_vy THEN b.velocity.y ELSE vy))
        ELSE Entity(Vec3(b.translation.x, y2, b.translation.z), Vec2(b.velocity.x, vy))

\* ... bounces without putting the ball back on the bound.
ball_limiter_no_clamp(b) == BallLimiterWith(b, FALSE, FALSE, TRUE, FALSE)

\* ... takes the ball on the edge itself for out.
ball_limiter_inclusive(b) == BallLimiterWith(b, TRUE, TRUE, TRUE, FALSE)

\* ... recentres the ball without turning it round.
ball_limiter_keep_vx(b) == BallLimiterWith(b, TRUE, FALSE, FALSE, FALSE)

\* ... recentres the ball with the vertical velocity it came with.
ball_limiter_reset_vy(b) == BallLimiterWith(b, TRUE, FALSE, TRUE, TRUE)

ball_limiter(b) ==
    LET top == b.translation.y > SCREEN_HALF_HEIGHT - BALL_RADIUS
        y1 == IF top THEN SCREEN_HALF_HEIGHT - BALL_RADIUS ELSE b.translation.y
        bottom == y1 < -SCREEN_HALF_HEIGHT + BALL_RADIUS
        y2 == IF bottom THEN -SCREEN_HALF_HEIGHT + BALL_RADIUS ELSE y1
        flip_vert == top \/ bottom
        vy == IF flip_vert THEN -b.velocity.y ELSE b.velocity.y
        ball_out == \/ b.translation.x < -SCREEN_HALF_WIDTH - BALL_RADIUS
                    \/ b.translation.x > SCREEN_HALF_WIDTH + BALL_RADIUS
    IN  IF ball_out
        THEN Entity(Vec3_ZERO, Vec2(-b.velocity.x, vy))
        ELSE Entity(Vec3(b.translation.x, y2, b.translation.z), Vec2(b.velocity.x, vy))

\* The overlap test of ball_paddle_collider.
Overlaps(ball_pos, paddle_pos) ==
    /\ ball_pos.x < paddle_pos.x + PADDLE_WIDTH
    /\ ball_pos.x + BALL_DIAMETER > paddle_pos.x
    /\ ball_pos.y > paddle_pos.y - PADDLE_HEIGHT
    /\ ball_pos.y - BALL_DIAMETER < paddle_pos.y

RECURSIVE collide_from(_, _, _)
collide_from(i, b, ps) ==
    IF i > Len(PaddleOrder) THEN b
    ELSE LET paddle == ps[PaddleOrder[i]]
             b1 == IF Overlaps(b.translation, paddle.translation)
                   THEN [b EXCEPT !.velocity.x = -b.velocity.x]
                   ELSE b
         IN  collide_from(i + 1, b1, ps)

\* Variant of ball_paddle_collider that negates the vertical velocity.
ball_paddle_collider_flip_y(b, ps) ==
    IF \E p \in Player : Overlaps(b.translation, ps[p].translation)
    THEN [b EXCEPT !.velocity.y = -b.velocity.y]
    ELSE b

\* Variant of ball_paddle_collider that sends the ball away from the paddle it
\* overlaps, whatever its direction.
ball_paddle_collider_bounce_away(b, ps) ==
    LET speed == IF b.velocity.x < 0 THEN -b.velocity.x ELSE b.velocity.x
    IN  IF Overlaps(b.translation, ps["Right"].translation)
        THEN [b EXCEPT !.velocity.x = -speed]
        ELSE IF Overlaps(b.translation, ps["Left"].translation)
        THEN [b EXCEPT !.velocity.x = speed]
        ELSE b

ball_paddle_collider(b, ps) == collide_from(1, b, ps)

\* ------------------------------------------------------------ the frame
Init ==
    /\ inputs = Inputs_default
    /\ ball = setup_ball
    /\ paddles = setup_paddles
    /\ pc = "input_decoder"
    /\ pending = {}
    /\ frame = 0
    /\ keys = [W |-> FALSE, S |-> FALSE, I |-> FALSE, K |-> FALSE]
    /\ dt = 0
    /\ writes = 0
    /\ start = [ball |-> setup_ball, paddles |-> setup_paddles]
    /\ before = [s \in PostSystems |-> [ball |-> setup_ball, paddles |-> setup_paddles]]
    /\ after = [s \in PostSystems |-> [ball |-> setup_ball, paddles |-> setup_paddles]]
    /\ prevHit = [who |-> {}, vx |-> 0]
    /\ positive = TRUE

\* Paddles the collider's test succeeds for, in world w.
HitSet(w) == {p \in Player : Overlaps(w.ball.translation, w.paddles[p].translation)}

\* CoreStage::PreUpdate, labelled "input_decoder": first system of a frame.
InputDecoder ==
    /\ pc = "input_decoder"
    /\ pending = {}
    /\ frame < MaxFrames
    /\ \E k \in KeyStates :
        /\ keys' = k
        /\ inputs' = input_decoder(k)
    /\ frame' = frame + 1
    /\ writes' = writes + 1
    /\ dt' = 0
    /\ start' = World
    /\ before' = [s \in PostSystems |-> World]
    /\ after' = [s \in PostSystems |-> World]
    /\ prevHit' = IF frame = 0 THEN [who |-> {}, vx |-> 0]
                  ELSE [who |-> HitSet(before["ball_paddle_collider"]),
                        vx |-> before["ball_paddle_collider"].ball.velocity.x]
    /\ pc' = "handle_inputs"
    /\ UNCHANGED <<ball, paddles, pending, positive>>

\* CoreStage::PreUpdate, .after("input_decoder").
HandleInputs ==
    /\ pc = "handle_inputs"
    /\ paddles' = handle_inputs(inputs, paddles)
    /\ pc' = "movement"
    /\ UNCHANGED <<inputs, ball, pending, frame, keys, dt, writes, start, before, after, prevHit, positive>>

\* CoreStage::Update, labelled "movement".
Movement ==
    /\ pc = "movement"
    /\ \E d \in ElapsedTicks :
        /\ dt' = d
        /\ positive' = (positive /\ d > 0)
        /\ ball' = movement_one(d, ball)
        /\ paddles' = [p \in Player |-> movement_one(d, paddles[p])]
    /\ pc' = "post"
    /\ pending' = PostSystems
    /\ UNCHANGED <<inputs, frame, keys, writes, start, before, after, prevHit>>

\* Bookkeeping shared by the three post-movement systems.
RunPost(s) ==
    /\ pc = "post"
    /\ s \in pending
    /\ pending' = pending \ {s}
    /\ before' = [before EXCEPT ![s] = World]
    /\ after' = [after EXCEPT ![s] = [ball |-> ball', paddles |-> paddles']]
    /\ pc' = IF pending = {s} THEN "input_decoder" ELSE "post"
    /\ UNCHANGED <<inputs, frame, keys, dt, writes, start, prevHit, positive>>

PaddleLimiter ==
    /\ paddles' = paddle_limiter(paddles)
    /\ ball' = ball
    /\ RunPost("paddle_limiter")

BallLimiter ==
    /\ ball' = ball_limiter(ball)
    /\ paddles' = paddles
    /\ RunPost("ball_limiter")

BallPaddleCollider ==
    /\ ball' = ball_paddle_collider(ball, paddles)
    /\ paddles' = paddles
    /\ RunPost("ball_paddle_collider")

Next ==
    \/ InputDecoder
    \/ HandleInputs
    \/ Movement
    \/ PaddleLimiter
    \/ BallLimiter
    \/ BallPaddleCollider

Spec == Init /\ [][Next]_vars

\* ------------------------------------------------------- observations
\* The last post-movement system of a frame has run.
EndOfFrame == frame > 0 /\ pc = "input_decoder"

\* Post-movement system s has run in the current frame.
Ran(s) == frame > 0 /\ pc \in {"post", "input_decoder"} /\ s \notin pending

Sign(v) == IF v > 0 THEN 1 ELSE IF v < 0 THEN -1 ELSE 0

\* What ball_limiter found and left in this frame.
BallIn == before["ball_limiter"].ball
BallOut == after["ball_limiter"].ball

\* What ball_paddle_collider found and left in this frame.
ColliderIn == before["ball_paddle_collider"]
ColliderOut == after["ball_paddle_collider"]

\* The overlap test as section 4.6 of the specification writes it.
SpecOverlap(b, p) ==
    /\ b.x < p.x + 16
    /\ b.x + 8 > p.x
    /\ b.y > p.y - 64
    /\ b.y - 8 < p.y

SpecHits(w) == {p \in Player : SpecOverlap(w.ball.translation, w.paddles[p].translation)}

\* ------------------------------------------------------------------ C1
\* C1: at the end of every frame each paddle's vertical position lies in
\* [-(360-32), 360-32] = [-328, 328].
C1_PaddleWithinField ==
    EndOfFrame =>
        \A p \in Player :
            /\ paddles[p].translation.y >= -328
            /\ paddles[p].translation.y <= 328

\* A frame ended in which a paddle had moved past the upper bound and another
\* past the lower bound, and both were brought back.
C1_Witness ==
    /\ EndOfFrame
    /\ before["paddle_limiter"].paddles["Left"].translation.y > 328
    /\ before["paddle_limiter"].paddles["Right"].translation.y < -328
    /\ paddles["Left"].translation.y = 328
    /\ paddles["Right"].translation.y = -328

\* ------------------------------------------------------------------ C2
\* C2: at the end of every frame the ball's vertical position lies in
\* [-(360-8), 360-8] = [-352, 352].
C2_BallWithinField ==
    EndOfFrame =>
        /\ ball.translation.y >= -352
        /\ ball.translation.y <= 352

\* A frame ended in which the ball had moved past the upper bound.
C2_Witness ==
    /\ EndOfFrame
    /\ BallIn.translation.y > 352
    /\ ball.translation.y = 352

\* ------------------------------------------------------------------ C5
\* C5: after handle_inputs each paddle's vertical velocity is
\* 600*up - 600*down of its own side's snapshot entry, whatever it was before;
\* its horizontal velocity is unchanged, and 0 in every reachable state.
KeyTerm(pressed) == IF pressed THEN 600 ELSE 0

C5_HandleInputs ==
    /\ pc = "movement" =>
        /\ paddles["Left"].velocity.y =
              KeyTerm(inputs.left.up) - KeyTerm(inputs.left.down)
        /\ paddles["Right"].velocity.y =
              KeyTerm(inputs.right.up) - KeyTerm(inputs.right.down)
        /\ \A p \in Player : paddles[p].velocity.x = start.paddles[p].velocity.x
    /\ \A p \in Player : paddles[p].velocity.x = 0

\* handle_inputs ran with both left keys pressed on a left paddle that was moving.
C5_Witness ==
    /\ pc = "movement"
    /\ inputs.left.up /\ inputs.left.down
    /\ start.paddles["Left"].velocity.y = 600
    /\ paddles["Left"].velocity.y = 0
    /\ inputs.right.down /\ ~inputs.right.up
    /\ paddles["Right"].velocity.y = -600

\* ------------------------------------------------------------------ C3
\* C3: across a frame the sign of the ball's horizontal velocity changes if and
\* only if, in that frame, ball_paddle_collider's test succeeded for a paddle or
\* ball_limiter found the ball beyond +-(640+8); and input_decoder,
\* handle_inputs, movement and paddle_limiter never change that velocity.
BeyondSides(b) == b.translation.x < -648 \/ b.translation.x > 648

C3_FlipOnlyOnHitOrExit ==
    EndOfFrame =>
        ((Sign(ball.velocity.x) # Sign(start.ball.velocity.x))
            <=> (HitSet(ColliderIn) # {} \/ BeyondSides(BallIn)))

C3_OthersKeepVx ==
    (\/ pc \in {"input_decoder", "handle_inputs", "movement"}
     \/ (pc = "post" /\ "paddle_limiter" \in pending /\ "paddle_limiter" \notin pending'))
        => ball'.velocity.x = ball.velocity.x

C3_HorizontalFlips == [] C3_FlipOnlyOnHitOrExit /\ [][C3_OthersKeepVx]_vars

\* A frame ended in which the collider's test succeeded and the sign changed.
C3_Witness ==
    /\ EndOfFrame
    /\ HitSet(ColliderIn) # {}
    /\ ~BeyondSides(BallIn)
    /\ Sign(ball.velocity.x) = -Sign(start.ball.velocity.x)

\* ------------------------------------------------------------------ C4
\* C4: right after movement, running paddle_limiter, ball_limiter and
\* ball_paddle_collider in any of the six orders gives the same positions and
\* velocities of the ball and both paddles.
ApplyPost(s, w) ==
    CASE s = "paddle_limiter" -> [w EXCEPT !.paddles = paddle_limiter(w.paddles)]
      [] s = "ball_limiter" -> [w EXCEPT !.ball = ball_limiter(w.ball)]
      [] s = "ball_paddle_collider" ->
            [w EXCEPT !.ball = ball_paddle_collider(w.ball, w.paddles)]

RunOrder(o, w) == ApplyPost(o[3], ApplyPost(o[2], ApplyPost(o[1], w)))

Orders == {o \in [1..3 -> PostSystems] : {o[1], o[2], o[3]} = PostSystems}

C4_OrderInsensitive ==
    (pc = "post" /\ pending = PostSystems) =>
        \A o1, o2 \in Orders : RunOrder(o1, World) = RunOrder(o2, World)

\* ------------------------------------------------------------------ C6
\* C6 as stated: whenever ball_limiter finds the ball vertically beyond
\* +-(360-8), also when it is horizontally out of bounds, it leaves the vertical
\* position on the exceeded bound and the vertical velocity negated; within the
\* bounds it leaves the vertical velocity unchanged.
C6_AsStated ==
    Ran("ball_limiter") =>
        /\ BallIn.translation.y > 352 =>
              BallOut.translation.y = 352 /\ BallOut.velocity.y = -BallIn.velocity.y
        /\ BallIn.translation.y < -352 =>
              BallOut.translation.y = -352 /\ BallOut.velocity.y = -BallIn.velocity.y
        /\ (BallIn.translation.y >= -352 /\ BallIn.translation.y <= 352) =>
              BallOut.velocity.y = BallIn.velocity.y

\* C6 amended: whenever ball_limiter finds the ball vertically beyond +-(360-8)
\* it negates the vertical velocity; it leaves the vertical position on the
\* exceeded bound when the horizontal position is within [-648, 648], and at 0
\* (the whole position reset to (0,0,0)) when the ball is horizontally out of
\* bounds too; within the vertical bounds it leaves the vertical velocity
\* unchanged.
C6_VerticalBounce ==
    Ran("ball_limiter") =>
        /\ BallIn.translation.y > 352 =>
              /\ BallOut.velocity.y = -BallIn.velocity.y
              /\ ~BeyondSides(BallIn) => BallOut.translation.y = 352
              /\ BeyondSides(BallIn) => BallOut.translation = [x |-> 0, y |-> 0, z |-> 0]
        /\ BallIn.translation.y < -352 =>
              /\ BallOut.velocity.y = -BallIn.velocity.y
              /\ ~BeyondSides(BallIn) => BallOut.translation.y = -352
              /\ BeyondSides(BallIn) => BallOut.translation = [x |-> 0, y |-> 0, z |-> 0]
        /\ (BallIn.translation.y >= -352 /\ BallIn.translation.y <= 352) =>
              BallOut.velocity.y = BallIn.velocity.y

\* The scenario of the claim: the ball of setup after 5.0 s, at (750, 750),
\* beyond the bounds on both axes when ball_limiter runs.
C6_Witness ==
    /\ Ran("ball_limiter")
    /\ BallIn.translation = [x |-> 750, y |-> 750, z |-> 0]
    /\ BallIn.velocity = [x |-> 150, y |-> 150]
    /\ BallOut.velocity.y = -150

\* ------------------------------------------------------------------ C7
\* C7: whenever ball_limiter finds the ball strictly beyond +-(640+8) it sets
\* the position to (0,0,0) and negates the horizontal velocity, and the reset
\* leaves the vertical velocity as the vertical step left it; when the ball is
\* within [-648, 648] it changes neither horizontal position nor velocity.
VerticalStepVy(b) ==
    IF b.translation.y > 352 \/ b.translation.y < -352
    THEN -b.velocity.y ELSE b.velocity.y

C7_HorizontalReset ==
    Ran("ball_limiter") =>
        /\ BeyondSides(BallIn) =>
              /\ BallOut.translation = [x |-> 0, y |-> 0, z |-> 0]
              /\ BallOut.velocity.x = -BallIn.velocity.x
              /\ BallOut.velocity.y = VerticalStepVy(BallIn)
        /\ ~BeyondSides(BallIn) =>
              /\ BallOut.translation.x = BallIn.translation.x
              /\ BallOut.velocity.x = BallIn.velocity.x

\* ball_limiter found the ball past the right edge and recentred it.
C7_Witness ==
    /\ Ran("ball_limiter")
    /\ BallIn.translation.x > 648
    /\ BallIn.translation.y <= 352
    /\ BallOut.translation = [x |-> 0, y |-> 0, z |-> 0]
    /\ BallOut.velocity.x = -BallIn.velocity.x

\* ------------------------------------------------------------------ C8
\* C8: in every frame the snapshot is written once, before handle_inputs reads
\* it, and the keys sampled in a frame decide the paddle's velocity and its
\* displacement in that same frame: when paddle_limiter runs, each paddle has
\* moved by 600*(up - down)*dt from where the frame began, and paddle_limiter
\* leaves it there or on the bound it passed.
KeyDir(p) ==
    IF p = "Left"
    THEN (IF keys.W THEN 1 ELSE 0) - (IF keys.S THEN 1 ELSE 0)
    ELSE (IF keys.I THEN 1 ELSE 0) - (IF keys.K THEN 1 ELSE 0)

Clamp328(y) == IF y > 328 THEN 328 ELSE IF y < -328 THEN -328 ELSE y

C8_SameFrameInput ==
    /\ pc \in {"handle_inputs", "movement", "post"} =>
        /\ writes = frame
        /\ inputs = [left |-> [up |-> keys.W, down |-> keys.S],
                     right |-> [up |-> keys.I, down |-> keys.K]]
    /\ pc \in {"movement", "post"} =>
        \A p \in Player : paddles[p].velocity.y = 600 * KeyDir(p)
    /\ Ran("paddle_limiter") =>
        \A p \in Player :
            LET moved == start.paddles[p].translation.y
                            + (600 * KeyDir(p) * dt) \div TicksPerSecond
            IN  /\ before["paddle_limiter"].paddles[p].translation.y = moved
                /\ after["paddle_limiter"].paddles[p].translation.y = Clamp328(moved)
                /\ paddles[p].translation.y = Clamp328(moved)

\* The scenario of the claim: left paddle at y = 0, W pressed and S not, a
\* frame of 1.0 s: it reaches 600, and ends the frame at 328 with velocity 600.
C8_Witness ==
    /\ EndOfFrame
    /\ start.paddles["Left"].translation.y = 0
    /\ keys.W /\ ~keys.S
    /\ dt = TicksPerSecond
    /\ before["paddle_limiter"].paddles["Left"].translation.y = 600
    /\ paddles["Left"].velocity.y = 600
    /\ paddles["Left"].translation.y = 328

\* ------------------------------------------------------------------ C9
\* C9: whenever ball_paddle_collider runs and the ball passes the overlap test
\* of section 4.6 for some paddle, the collider negates the ball's horizontal
\* velocity exactly once (the ball never overlaps both paddles, which stay at
\* x = -500 and x = 500), and the collider moves neither the ball nor a paddle.
C9_CollideOnce ==
    /\ paddles["Left"].translation.x = -500
    /\ paddles["Right"].translation.x = 500
    /\ Ran("ball_paddle_collider") =>
        /\ Cardinality(SpecHits(ColliderIn)) <= 1
        /\ SpecHits(ColliderIn) # {} =>
              ColliderOut.ball.velocity.x = -ColliderIn.ball.velocity.x
        /\ ColliderOut.ball.translation = ColliderIn.ball.translation
        /\ \A p \in Player :
              ColliderOut.paddles[p].translation = ColliderIn.paddles[p].translation

\* The collider ran with the ball overlapping the right paddle.
C9_Witness ==
    /\ Ran("ball_paddle_collider")
    /\ SpecHits(ColliderIn) = {"Right"}
    /\ ColliderIn.ball.velocity.x = 150
    /\ ColliderOut.ball.velocity.x = -150

\* ----------------------------------------------------------------- C10
\* C10: there is no cooldown on a collision. Whenever the collider's test
\* succeeds for the same paddle in two consecutive frames, the second negation
\* undoes the first: the ball leaves the second frame with the horizontal
\* velocity it had before the first collision. Such an execution is reachable
\* from setup with positive elapsed times (C10_Witness).
C10_DoubleFlip ==
    (Ran("ball_paddle_collider") /\ prevHit.who # {} /\ HitSet(ColliderIn) = prevHit.who)
        => /\ ColliderOut.ball.velocity.x = prevHit.vx
           /\ EndOfFrame => ball.velocity.x = prevHit.vx

\* Every frame so far took a positive time, the collider negated the velocity
\* in the previous frame and again in this one, for the same paddle, and the
\* ball moves in its direction of before the first collision.
C10_Witness ==
    /\ EndOfFrame
    /\ positive
    /\ prevHit.who # {}
    /\ HitSet(ColliderIn) = prevHit.who
    /\ ColliderIn.ball.velocity.x = -prevHit.vx
    /\ ball.velocity.x = prevHit.vx
    /\ Sign(prevHit.vx) # 0

====
